---------------------------- MODULE Spec2Model ----------------------------
(***************************************************************************)
(* RectangleAnalyzer (src/RectangleAnalyzer.py): an analyzer object built  *)
(* from a caller-supplied list of rectangle dicts, and its six public      *)
(* operations.                                                             *)
(*                                                                         *)
(* Indices are Python's (0-based): rectangle i of the code is element i+1  *)
(* of the TLA+ sequence.  Python values are tagged records:                *)
(*   [t |-> "int", v |-> n]   an int                                       *)
(*   [t |-> "nan"]            float('nan')                                 *)
(*   [t |-> "str"]            a str (any non-numeric value)                *)
(* a dict is a function from the keys it holds to such values.  Exact      *)
(* quotients (Python's true division) are [num |-> n, den |-> d], d > 0.   *)
(* Arithmetic is exact: where Python returns a float (17.0) the model      *)
(* holds the number it equals (17); rounding and float overflow are not    *)
(* modelled.                                                               *)
(***************************************************************************)
EXTENDS Integers, Sequences, FiniteSets, TLC

VARIABLES
    rectangles,   \* the list object the caller passed; self.rectangles is this same object
    phase,        \* "start": no constructor call yet; "ok": analyzer exists; "failed": constructor raised
    raised,       \* the exception the constructor raised, or NoError
    warnings,     \* the UserWarnings issued by the constructor, in order
    validated,    \* history: the value of the list when validation passed
    mutations,    \* history: number of changes the caller made to its list afterwards
    result        \* the value returned by the last public call, or NoResult

vars == <<rectangles, phase, raised, warnings, validated, mutations, result>>

---------------------------------------------------------------------------
(* Bounds of the model *)

MaxRects == 3       \* longest list passed to the constructor
MaxX == 3           \* rectangles of the geometric model lie in [0, MaxX] x [0, MaxY]
MaxY == 2
MaxCallerRects == 1 \* longest list passed by a caller that changes it afterwards
MaxMutations == 1   \* changes that caller makes to its list after construction
MaxRaw == 2         \* longest list of arbitrary (raw) dicts passed to the constructor

---------------------------------------------------------------------------
(* Python values *)

PyInt(n) == [t |-> "int", v |-> n]
NaN == [t |-> "nan"]
Str == [t |-> "str"]

\* isinstance(v, (int, float))
IsNumeric(v) == v.t \in {"int", "nan"}

\* a < b, a == b on numbers: every comparison with NaN is False
PyLt(a, b) == a.t = "int" /\ b.t = "int" /\ a.v < b.v
PyEq(a, b) == a.t = "int" /\ b.t = "int" /\ a.v = b.v

Min2(a, b) == IF a <= b THEN a ELSE b
Max2(a, b) == IF a >= b THEN a ELSE b

\* sorted(S) for a finite set of integers
RECURSIVE sorted(_)
sorted(S) ==
    IF S = {} THEN <<>>
    ELSE LET m == CHOOSE a \in S : \A b \in S : a <= b
         IN <<m>> \o sorted(S \ {m})

RECURSIVE Flatten(_)
Flatten(ss) == IF ss = <<>> THEN <<>> ELSE Head(ss) \o Flatten(Tail(ss))

\* the elements of S as the sequences of length at most n
SeqsUpTo(S, n) == UNION {[1..k -> S] : k \in 0..n}

---------------------------------------------------------------------------
(* Validation: __init__, _validate_rectangles, _check_identical_rectangles *)

required == {"x", "y", "width", "height"}

NoError == [kind |-> "none"]

\* The checks of one loop iteration of _validate_rectangles, in order.
RectError(rect) ==
    IF ~(required \subseteq DOMAIN rect) THEN "ValueError: missing required keys"
    ELSE IF \E key \in required : ~IsNumeric(rect[key]) THEN "TypeError: non-numeric"
    ELSE IF PyLt(rect.width, PyInt(0)) \/ PyLt(rect.height, PyInt(0))
         THEN "ValueError: negative dimensions"
    ELSE IF PyEq(rect.width, PyInt(0)) \/ PyEq(rect.height, PyInt(0))
         THEN "ValueError: zero area"
    ELSE "ok"

\* The loop of _validate_rectangles: the exception of the first record that
\* fails a check, with its index, or NoError when the loop completes.
validate_rectangles(rects) ==
    LET bad == {i \in 1..Len(rects) : RectError(rects[i]) # "ok"}
    IN IF bad = {} THEN NoError
       ELSE LET i == CHOOSE a \in bad : \A b \in bad : a <= b
            IN [kind |-> RectError(rects[i]), index |-> i - 1]

\* key = (x, y, width, height); `key in seen` compares the tuples.  Tuples
\* holding NaN are equal only when they hold the same NaN object, which is
\* the caller's choice: nanShared says whether the caller's NaNs are one object.
KeyEq(r1, r2, nanShared) ==
    \A key \in required :
        \/ PyEq(r1[key], r2[key])
        \/ r1[key].t = "nan" /\ r2[key].t = "nan" /\ nanShared

\* seen is the dict, held as the set of its entries [key, index]; key is the
\* rectangle whose (x, y, width, height) the entry's tuple holds.
SeenLookup(seen, rect, nanShared) == {e \in seen : KeyEq(e.key, rect, nanShared)}

\* a variant of SeenStep that writes seen[key] = i in both branches: a
\* warning would name the latest rectangle with that geometry
SeenStep_overwrite(seen, rect, i, nanShared) ==
    (seen \ SeenLookup(seen, rect, nanShared)) \cup {[key |-> rect, index |-> i]}

\* if key in seen: (warn) else: seen[key] = i
SeenStep(seen, rect, i, nanShared) ==
    IF SeenLookup(seen, rect, nanShared) # {} THEN seen
    ELSE seen \cup {[key |-> rect, index |-> i]}

\* the loop of _check_identical_rectangles from index i on (0-based): the
\* warnings in the order issued, each naming i and seen[key]
RECURSIVE IdenticalLoop(_, _, _, _)
IdenticalLoop(rects, i, seen, nanShared) ==
    IF i >= Len(rects) THEN <<>>
    ELSE LET hit == SeenLookup(seen, rects[i + 1], nanShared)
         IN (IF hit # {}
             THEN <<[index |-> i, identical_to |-> (CHOOSE e \in hit : TRUE).index]>>
             ELSE <<>>)
            \o IdenticalLoop(rects, i + 1, SeenStep(seen, rects[i + 1], i, nanShared), nanShared)

check_identical_rectangles(rects, nanShared) == IdenticalLoop(rects, 0, {}, nanShared)

---------------------------------------------------------------------------
(* Geometry.  The operators below read rectangles that passed validation   *)
(* with integer fields; results carry plain integers.                      *)

X(r) == r.x.v
Y(r) == r.y.v
W(r) == r.width.v
H(r) == r.height.v

\* for i in range(n): for j in range(i + 1, n): the pairs (i, j) in loop order
PairLoop(n) == Flatten([i \in 1..n |-> [k \in 1..(n - i) |-> <<i - 1, i - 1 + k>>]])

\* a variant of rectangles_overlap with < for <=: rectangles that only touch
\* would count as overlapping
rectangles_overlap_touching(r1, r2) ==
    IF X(r1) + W(r1) < X(r2) \/ X(r2) + W(r2) < X(r1) THEN FALSE
    ELSE IF Y(r1) + H(r1) < Y(r2) \/ Y(r2) + H(r2) < Y(r1) THEN FALSE
    ELSE TRUE

rectangles_overlap(r1, r2) ==
    IF X(r1) + W(r1) <= X(r2) \/ X(r2) + W(r2) <= X(r1) THEN FALSE
    ELSE IF Y(r1) + H(r1) <= Y(r2) \/ Y(r2) + H(r2) <= Y(r1) THEN FALSE
    ELSE TRUE

find_overlaps(rects) ==
    SelectSeq(PairLoop(Len(rects)),
              LAMBDA p : rectangles_overlap(rects[p[1] + 1], rects[p[2] + 1]))

\* sorted(x_coords), sorted(y_coords): every rectangle's two edges per axis
x_coords(rects) ==
    sorted({X(rects[i]) : i \in DOMAIN rects} \cup {X(rects[i]) + W(rects[i]) : i \in DOMAIN rects})
y_coords(rects) ==
    sorted({Y(rects[i]) : i \in DOMAIN rects} \cup {Y(rects[i]) + H(rects[i]) : i \in DOMAIN rects})

\* for i in range(len(x_coords) - 1): for j in range(len(y_coords) - 1):
\* the grid cells in loop order, each by its four edges
GridCells(xs, ys) ==
    Flatten([i \in 1..(Len(xs) - 1) |->
                [j \in 1..(Len(ys) - 1) |->
                    [x0 |-> xs[i], x1 |-> xs[i + 1], y0 |-> ys[j], y1 |-> ys[j + 1]]]])

\* the test of the inner loop of calculate_coverage_area
CellCovered(rects, cell) ==
    LET cell_x == cell.x0
        cell_y == cell.y0
        cell_width == cell.x1 - cell.x0
        cell_height == cell.y1 - cell.y0
    IN \E i \in DOMAIN rects :
          /\ X(rects[i]) <= cell_x
          /\ cell_x + cell_width <= X(rects[i]) + W(rects[i])
          /\ Y(rects[i]) <= cell_y
          /\ cell_y + cell_height <= Y(rects[i]) + H(rects[i])

\* a variant of CellArea without the break: a cell would be added once per
\* rectangle covering it
CellArea_no_break(rects, cell) ==
    (cell.x1 - cell.x0) * (cell.y1 - cell.y0)
    * Cardinality({i \in DOMAIN rects :
                     /\ X(rects[i]) <= cell.x0 /\ cell.x1 <= X(rects[i]) + W(rects[i])
                     /\ Y(rects[i]) <= cell.y0 /\ cell.y1 <= Y(rects[i]) + H(rects[i])})

\* total_area += cell_width * cell_height, once per covered cell (break)
CellArea(rects, cell) ==
    IF CellCovered(rects, cell) THEN (cell.x1 - cell.x0) * (cell.y1 - cell.y0) ELSE 0

\* the two loops over the grid, accumulating total_area
RECURSIVE AreaLoop(_, _)
AreaLoop(rects, cells) ==
    IF cells = <<>> THEN 0
    ELSE CellArea(rects, Head(cells)) + AreaLoop(rects, Tail(cells))

calculate_coverage_area(rects) ==
    IF rects = <<>> THEN 0
    ELSE AreaLoop(rects, GridCells(x_coords(rects), y_coords(rects)))

NoRegion == [none |-> TRUE]

\* a variant of get_overlap_region that takes the far edges for the sizes
get_overlap_region_far_edges(r1, r2) ==
    IF ~rectangles_overlap(r1, r2) THEN NoRegion
    ELSE LET x == Max2(X(r1), X(r2))
             y == Max2(Y(r1), Y(r2))
             x_max == Min2(X(r1) + W(r1), X(r2) + W(r2))
             y_max == Min2(Y(r1) + H(r1), Y(r2) + H(r2))
         IN [x |-> x, y |-> y, width |-> x_max, height |-> y_max]

get_overlap_region(r1, r2) ==
    IF ~rectangles_overlap(r1, r2) THEN NoRegion
    ELSE LET x == Max2(X(r1), X(r2))
             y == Max2(Y(r1), Y(r2))
             x_max == Min2(X(r1) + W(r1), X(r2) + W(r2))
             y_max == Min2(Y(r1) + H(r1), Y(r2) + H(r2))
         IN [x |-> x, y |-> y, width |-> x_max - x, height |-> y_max - y]

\* `if region:` a dict with four keys is true, None is false
RECURSIVE RegionLoop(_, _)
RegionLoop(rects, pairs) ==
    IF pairs = <<>> THEN <<>>
    ELSE LET i == Head(pairs)[1]
             j == Head(pairs)[2]
             region == get_overlap_region(rects[i + 1], rects[j + 1])
         IN (IF region # NoRegion THEN <<[rect_indices |-> <<i, j>>, region |-> region]>>
             ELSE <<>>)
            \o RegionLoop(rects, Tail(pairs))

get_overlap_regions(rects) == RegionLoop(rects, PairLoop(Len(rects)))

\* a variant of PointInRect with half-open intervals: the right and top
\* edges would not belong to the rectangle
PointInRect_half_open(rect, x, y) ==
    /\ X(rect) * x.den <= x.num
    /\ x.num < (X(rect) + W(rect)) * x.den
    /\ Y(rect) * y.den <= y.num
    /\ y.num < (Y(rect) + H(rect)) * y.den

\* rect.x <= x <= rect.x + rect.width and rect.y <= y <= rect.y + rect.height,
\* for a point given by exact quotients x = x.num / x.den, y = y.num / y.den
PointInRect(rect, x, y) ==
    /\ X(rect) * x.den <= x.num
    /\ x.num <= (X(rect) + W(rect)) * x.den
    /\ Y(rect) * y.den <= y.num
    /\ y.num <= (Y(rect) + H(rect)) * y.den

is_point_covered(rects, x, y) == \E i \in DOMAIN rects : PointInRect(rects[i], x, y)

Whole(n) == [num |-> n, den |-> 1]

\* test_x = (x_coords[i] + x_coords[i + 1]) / 2, likewise test_y
CellCenter(cell) ==
    [x |-> [num |-> cell.x0 + cell.x1, den |-> 2], y |-> [num |-> cell.y0 + cell.y1, den |-> 2]]

\* count = sum(1 for rect in self.rectangles if ...)
CountAt(rects, x, y) == Cardinality({i \in DOMAIN rects : PointInRect(rects[i], x, y)})

\* the loop over the cells: max_count is max_point.count throughout
RECURSIVE MaxLoop(_, _, _)
MaxLoop(rects, cells, max_point) ==
    IF cells = <<>> THEN max_point
    ELSE LET c == CellCenter(Head(cells))
             count == CountAt(rects, c.x, c.y)
         IN MaxLoop(rects, Tail(cells),
                    IF count > max_point.count
                    THEN [x |-> c.x, y |-> c.y, count |-> count]
                    ELSE max_point)

find_max_overlap_point(rects) ==
    IF rects = <<>> THEN [x |-> Whole(0), y |-> Whole(0), count |-> 0]
    ELSE MaxLoop(rects, GridCells(x_coords(rects), y_coords(rects)),
                 [x |-> Whole(0), y |-> Whole(0), count |-> 0])

\* What a call does: it returns a value or raises an exception.
Return(val) == [raised |-> "none", val |-> val]
Raise(exception) == [raised |-> exception]

\* a / b: raises ZeroDivisionError when b is 0
TrueDiv(a, b) == IF b = 0 THEN Raise("ZeroDivisionError") ELSE Return([num |-> a, den |-> b])

\* a variant of CoverageEfficiency without the test: the division would
\* raise on an empty collection
CoverageEfficiency_unguarded(total_area, sum_of_individual_areas) ==
    TrueDiv(total_area, sum_of_individual_areas)

\* a variant of CoverageEfficiency with the quotient upside down
CoverageEfficiency_inverted(total_area, sum_of_individual_areas) ==
    IF sum_of_individual_areas > 0 THEN TrueDiv(sum_of_individual_areas, total_area)
    ELSE Return(Whole(0))

\* total_area / sum_of_individual_areas if sum_of_individual_areas > 0 else 0.0
CoverageEfficiency(total_area, sum_of_individual_areas) ==
    IF sum_of_individual_areas > 0 THEN TrueDiv(total_area, sum_of_individual_areas)
    ELSE Return(Whole(0))

\* sum(region["region"]["width"] * region["region"]["height"] for region in overlap_regions)
RECURSIVE RegionAreaSum(_)
RegionAreaSum(regions) ==
    IF regions = <<>> THEN 0
    ELSE Head(regions).region.width * Head(regions).region.height + RegionAreaSum(Tail(regions))

\* sum(rect["width"] * rect["height"] for rect in self.rectangles)
RECURSIVE RectAreaSum(_)
RectAreaSum(rects) ==
    IF rects = <<>> THEN 0 ELSE W(Head(rects)) * H(Head(rects)) + RectAreaSum(Tail(rects))

\* get_stats: the dict returned, or the exception the division raised
get_stats(rects) ==
    LET total_rectangles == Len(rects)
        overlapping_pairs == Len(find_overlaps(rects))
        total_area == calculate_coverage_area(rects)
        overlap_regions == get_overlap_regions(rects)
        overlap_area == RegionAreaSum(overlap_regions)
        sum_of_individual_areas == RectAreaSum(rects)
        coverage_efficiency == CoverageEfficiency(total_area, sum_of_individual_areas)
    IN IF coverage_efficiency.raised # "none" THEN coverage_efficiency
       ELSE Return([total_rectangles |-> total_rectangles,
                    overlapping_pairs |-> overlapping_pairs,
                    total_area |-> total_area,
                    overlap_area |-> overlap_area,
                    coverage_efficiency |-> coverage_efficiency.val])

---------------------------------------------------------------------------
(* Inputs *)

Rect(x, y, w, h) == [x |-> PyInt(x), y |-> PyInt(y), width |-> PyInt(w), height |-> PyInt(h)]

\* the valid rectangles with integer edges inside [0, MaxX] x [0, MaxY]
Rects ==
    {r \in {Rect(x, y, w, h) : x \in 0..(MaxX - 1), y \in 0..(MaxY - 1),
                                w \in 1..MaxX, h \in 1..MaxY} :
        X(r) + W(r) <= MaxX /\ Y(r) + H(r) <= MaxY}

\* one record per way validation fails (the records of test_validation_errors,
\* and a zero-area one)
InvalidRecords ==
    { [x |-> PyInt(0), y |-> PyInt(0), width |-> PyInt(2)],
      [x |-> PyInt(0), y |-> PyInt(0), width |-> Str, height |-> PyInt(2)],
      Rect(0, 0, -2, 2),
      Rect(0, 0, 2, 0) }

Inputs == SeqsUpTo(Rects \cup InvalidRecords, MaxRects)

\* the lists of a caller that goes on to change its list
CallerInputs == SeqsUpTo(Rects, MaxCallerRects)

\* arbitrary dicts: each key absent or holding a str, a NaN or a small int
RawValues(key) ==
    IF key \in {"width", "height"} THEN {Str, NaN, PyInt(-1), PyInt(0), PyInt(1)}
    ELSE {Str, PyInt(0)}
RawRecords ==
    UNION {{rect \in [keys -> {Str, NaN, PyInt(-1), PyInt(0), PyInt(1)}] :
               \A key \in keys : rect[key] \in RawValues(key)} : keys \in SUBSET required}
RawInputs == SeqsUpTo(RawRecords, MaxRaw)

\* the points queried: the integer points of the box
Points == {[x |-> Whole(a), y |-> Whole(b)] : a \in 0..MaxX, b \in 0..MaxY}

---------------------------------------------------------------------------
(* The state machine *)

NoResult == [op |-> "none"]

\* the outcome of the public call op(args) on the list rects
Outcome(op, args, rects) ==
    CASE op = "find_overlaps" -> Return(find_overlaps(rects))
      [] op = "calculate_coverage_area" -> Return(calculate_coverage_area(rects))
      [] op = "get_overlap_regions" -> Return(get_overlap_regions(rects))
      [] op = "is_point_covered" -> Return(is_point_covered(rects, args[1], args[2]))
      [] op = "find_max_overlap_point" -> Return(find_max_overlap_point(rects))
      [] op = "get_stats" -> get_stats(rects)

Init ==
    /\ rectangles = <<>>
    /\ phase = "start"
    /\ raised = NoError
    /\ warnings = <<>>
    /\ validated = <<>>
    /\ mutations = 0
    /\ result = NoResult

\* RectangleAnalyzer(input): self.rectangles = rectangles; self._validate_rectangles()
Construct(input, nanShared) ==
    /\ phase = "start"
    /\ rectangles' = input
    /\ LET err == validate_rectangles(input)
       IN IF err = NoError
          THEN /\ phase' = "ok"
               /\ raised' = NoError
               /\ warnings' = check_identical_rectangles(input, nanShared)
               /\ validated' = input
          ELSE /\ phase' = "failed"
               /\ raised' = err
               /\ warnings' = <<>>
               /\ validated' = <<>>
    /\ UNCHANGED <<mutations, result>>

\* a public call on the analyzer: it reads self.rectangles and writes nothing
Call(op, args) ==
    /\ phase = "ok"
    /\ result' = [op |-> op, args |-> args, outcome |-> Outcome(op, args, rectangles)]
    /\ UNCHANGED <<rectangles, phase, raised, warnings, validated, mutations>>

FindOverlaps == Call("find_overlaps", <<>>)
CalculateCoverageArea == Call("calculate_coverage_area", <<>>)
GetOverlapRegions == Call("get_overlap_regions", <<>>)
IsPointCovered(p) == Call("is_point_covered", <<p.x, p.y>>)
FindMaxOverlapPoint == Call("find_max_overlap_point", <<>>)
GetStats == Call("get_stats", <<>>)

\* The caller still holds the list it passed: rectangles.append(r)
CallerAppend(r) ==
    /\ phase = "ok"
    /\ mutations < MaxMutations
    /\ Len(rectangles) <= MaxCallerRects
    /\ rectangles' = Append(rectangles, r)
    /\ mutations' = mutations + 1
    /\ UNCHANGED <<phase, raised, warnings, validated, result>>

\* rectangles.pop()
CallerPop ==
    /\ phase = "ok"
    /\ mutations < MaxMutations
    /\ rectangles # <<>>
    /\ rectangles' = SubSeq(rectangles, 1, Len(rectangles) - 1)
    /\ mutations' = mutations + 1
    /\ UNCHANGED <<phase, raised, warnings, validated, result>>

\* the constructor called on one of the lists of S
Constructor(S) ==
    phase = "start" /\ \E input \in S, nanShared \in BOOLEAN : Construct(input, nanShared)

Next ==
    \/ Constructor(Inputs)
    \/ FindOverlaps
    \/ CalculateCoverageArea
    \/ GetOverlapRegions
    \/ \E p \in Points : IsPointCovered(p)
    \/ FindMaxOverlapPoint
    \/ GetStats

\* the analyzer with a caller that leaves its list alone after construction
Spec == Init /\ [][Next]_vars

\* the same analyzer with a caller that changes its list after construction
NextCaller ==
    \/ Constructor(CallerInputs)
    \/ FindOverlaps
    \/ CalculateCoverageArea
    \/ GetOverlapRegions
    \/ \E p \in Points : IsPointCovered(p)
    \/ FindMaxOverlapPoint
    \/ GetStats
    \/ \E r \in Rects : CallerAppend(r)
    \/ CallerPop

SpecCaller == Init /\ [][NextCaller]_vars

\* construction alone, over arbitrary dicts
NextValidate == Constructor(RawInputs)

SpecValidate == Init /\ [][NextValidate]_vars

---------------------------------------------------------------------------
(* Properties.  The geometric facts the properties compare the results     *)
(* with are stated here on their own, not through the operators above.     *)

Returned(op) == phase = "ok" /\ result.op = op /\ result.outcome.raised = "none"

\* the index pairs i < j of a list of n rectangles
IndexPairs(n) == {p \in (0..(n - 1)) \X (0..(n - 1)) : p[1] < p[2]}

\* the open interval (lo, hi) common to [a0, a1] and [b0, b1] is not empty
PositiveLength(a0, a1, b0, b1) == Max2(a0, b0) < Min2(a1, b1)

\* positive-length intersection on the x axis and on the y axis
Intersect(a, b) ==
    /\ PositiveLength(X(a), X(a) + W(a), X(b), X(b) + W(b))
    /\ PositiveLength(Y(a), Y(a) + H(a), Y(b), Y(b) + H(b))

\* the closed rectangles meet (in an edge or a corner) without intersecting so
Touch(a, b) ==
    /\ ~Intersect(a, b)
    /\ Max2(X(a), X(b)) <= Min2(X(a) + W(a), X(b) + W(b))
    /\ Max2(Y(a), Y(b)) <= Min2(Y(a) + H(a), Y(b) + H(b))

OverlappingPairs(rects) ==
    {p \in IndexPairs(Len(rects)) : Intersect(rects[p[1] + 1], rects[p[2] + 1])}

LexLess(p, q) == p[1] < q[1] \/ (p[1] = q[1] /\ p[2] < q[2])

StrictlyIncreasing(pairs) == \A k \in 1..(Len(pairs) - 1) : LexLess(pairs[k], pairs[k + 1])

Elements(seq) == {seq[k] : k \in DOMAIN seq}

\* C1: find_overlaps() returns exactly the pairs (i, j), i < j, whose
\* rectangles intersect with positive length on both axes, in strictly
\* increasing lexicographic order (so each once); pairs that only touch are
\* not among them.
C1_FindOverlapsExact ==
    Returned("find_overlaps") =>
        LET got == result.outcome.val
        IN /\ StrictlyIncreasing(got)
           /\ Elements(got) = OverlappingPairs(rectangles)
           /\ \A p \in IndexPairs(Len(rectangles)) :
                  Touch(rectangles[p[1] + 1], rectangles[p[2] + 1]) => p \notin Elements(got)

\* find_overlaps() returned two pairs or more and left out a pair that touches
C1_Witness ==
    /\ Returned("find_overlaps")
    /\ Len(result.outcome.val) >= 2
    /\ \E p \in IndexPairs(Len(rectangles)) :
           Touch(rectangles[p[1] + 1], rectangles[p[2] + 1])

\* the unit squares [a, a+1] x [b, b+1] of the plane that the rectangles cover
UnitSquares(rects) ==
    {sq \in (0..(MaxX + 1)) \X (0..(MaxY + 1)) :
        \E i \in DOMAIN rects :
            /\ X(rects[i]) <= sq[1] /\ sq[1] < X(rects[i]) + W(rects[i])
            /\ Y(rects[i]) <= sq[2] /\ sq[2] < Y(rects[i]) + H(rects[i])}

UnionArea(rects) == Cardinality(UnitSquares(rects))

Area(r) == W(r) * H(r)

\* the area common to two rectangles (0 when they do not intersect)
CommonArea(a, b) ==
    LET w == Min2(X(a) + W(a), X(b) + W(b)) - Max2(X(a), X(b))
        h == Min2(Y(a) + H(a), Y(b) + H(b)) - Max2(Y(a), Y(b))
    IN IF w > 0 /\ h > 0 THEN w * h ELSE 0

\* the sum of the areas of the rectangles with index in I
RECURSIVE AreasOf(_, _)
AreasOf(rects, I) ==
    IF I = {} THEN 0
    ELSE LET i == CHOOSE a \in I : TRUE IN Area(rects[i]) + AreasOf(rects, I \ {i})

SumOfAreas(rects) == AreasOf(rects, DOMAIN rects)

\* C2: calculate_coverage_area() is the area of the union; for two
\* intersecting rectangles it is area(a) + area(b) - area(a /\ b); when no two
\* rectangles intersect (they are apart or only touch) it is the sum of the areas.
C2_CoverageIsUnionArea ==
    Returned("calculate_coverage_area") =>
        LET got == result.outcome.val
        IN /\ got = UnionArea(rectangles)
           /\ (Len(rectangles) = 2 /\ Intersect(rectangles[1], rectangles[2])) =>
                  got = Area(rectangles[1]) + Area(rectangles[2])
                        - CommonArea(rectangles[1], rectangles[2])
           /\ OverlappingPairs(rectangles) = {} => got = SumOfAreas(rectangles)

\* three rectangles, every two intersecting, none equal to another, and part
\* of the bounding box not covered
C2_Witness ==
    /\ Returned("calculate_coverage_area")
    /\ Len(rectangles) = 3
    /\ Cardinality(OverlappingPairs(rectangles)) = 3
    /\ Cardinality(Elements(rectangles)) = 3
    /\ result.outcome.val < SumOfAreas(rectangles)
    /\ result.outcome.val < MaxX * MaxY

\* the closed rectangle r holds the point (x, y), given by exact quotients
InClosed(r, x, y) ==
    /\ x.num >= X(r) * x.den /\ x.num <= (X(r) + W(r)) * x.den
    /\ y.num >= Y(r) * y.den /\ y.num <= (Y(r) + H(r)) * y.den

\* the point lies on an edge (or at a corner) of r
OnBoundary(r, x, y) ==
    /\ InClosed(r, x, y)
    /\ \/ x.num = X(r) * x.den \/ x.num = (X(r) + W(r)) * x.den
       \/ y.num = Y(r) * y.den \/ y.num = (Y(r) + H(r)) * y.den

\* the number of rectangles whose closed region holds the point
Depth(rects, x, y) == Cardinality({i \in DOMAIN rects : InClosed(rects[i], x, y)})

\* the points of the box with both coordinates multiples of 1/2
HalfPoints == {[x |-> [num |-> a, den |-> 2], y |-> [num |-> b, den |-> 2]] :
                  a \in 0..(2 * MaxX), b \in 0..(2 * MaxY)}

\* C3: on a non-empty collection find_max_overlap_point() returns a point
\* held by exactly `count` rectangles (closed test), and no point of the
\* plane is held by more than `count` rectangles.
C3_MaxOverlapIsMaximal ==
    (Returned("find_max_overlap_point") /\ rectangles # <<>>) =>
        LET got == result.outcome.val
        IN /\ Depth(rectangles, got.x, got.y) = got.count
           /\ \A q \in HalfPoints : Depth(rectangles, q.x, q.y) <= got.count

\* a field holds a number greater than 0
Positive(v) == v.t = "int" /\ v.v > 0

\* all four fields, every field numeric, width > 0 and height > 0
WellFormed(rect) ==
    /\ required \subseteq DOMAIN rect
    /\ \A key \in required : rect[key].t # "str"
    /\ Positive(rect.width)
    /\ Positive(rect.height)

\* the error class of a record that is not well formed, by the order of the
\* checks: missing field, non-numeric field, negative dimension, zero area
ErrorClass(rect) ==
    IF \E key \in required : key \notin DOMAIN rect THEN "ValueError: missing required keys"
    ELSE IF \E key \in required : rect[key].t = "str" THEN "TypeError: non-numeric"
    ELSE IF \E key \in {"width", "height"} : rect[key].t = "int" /\ rect[key].v < 0
         THEN "ValueError: negative dimensions"
    ELSE "ValueError: zero area"

\* C4: construction succeeds exactly when every record is well formed;
\* otherwise it raises the error class of the lowest-index record that is
\* not, naming that index, and there is no analyzer.
C4_ConstructionIffWellFormed ==
    phase # "start" =>
        LET offending == {i \in DOMAIN rectangles : ~WellFormed(rectangles[i])}
        IN /\ phase = "ok" <=> offending = {}
           /\ phase = "failed" =>
                  /\ offending # {}
                  /\ LET i == CHOOSE a \in offending : \A b \in offending : a <= b
                     IN raised = [kind |-> ErrorClass(rectangles[i]), index |-> i - 1]
                  /\ validated = <<>> /\ result = NoResult

\* C5: is_point_covered(x, y) is true iff some closed rectangle holds the
\* point: every edge and corner point is covered, and so is a point on the
\* edge shared by two rectangles that touch, a pair find_overlaps() leaves out.
C5_PointCoveredClosed ==
    Returned("is_point_covered") =>
        LET x == result.args[1]
            y == result.args[2]
            got == result.outcome.val
        IN /\ got <=> \E i \in DOMAIN rectangles : InClosed(rectangles[i], x, y)
           /\ (\E i \in DOMAIN rectangles : OnBoundary(rectangles[i], x, y)) => got
           /\ \A p \in IndexPairs(Len(rectangles)) :
                  (/\ Touch(rectangles[p[1] + 1], rectangles[p[2] + 1])
                   /\ InClosed(rectangles[p[1] + 1], x, y)
                   /\ InClosed(rectangles[p[2] + 1], x, y))
                  => got /\ p \notin Elements(find_overlaps(rectangles))

\* the point queried is on the edge shared by two rectangles that touch, in a
\* collection where find_overlaps() reports nothing
C5_Witness ==
    /\ Returned("is_point_covered")
    /\ result.outcome.val = TRUE
    /\ find_overlaps(rectangles) = <<>>
    /\ \E p \in IndexPairs(Len(rectangles)) :
           /\ Touch(rectangles[p[1] + 1], rectangles[p[2] + 1])
           /\ OnBoundary(rectangles[p[1] + 1], result.args[1], result.args[2])
           /\ OnBoundary(rectangles[p[2] + 1], result.args[1], result.args[2])

\* region lies inside rectangle r
Inside(region, r) ==
    /\ X(r) <= region.x /\ region.x + region.width <= X(r) + W(r)
    /\ Y(r) <= region.y /\ region.y + region.height <= Y(r) + H(r)

\* C6: get_overlap_regions() lists exactly the pairs of find_overlaps(), in
\* the same order, each with the region x = max(a.x, b.x), y = max(a.y, b.y),
\* width = min(a.x + a.width, b.x + b.width) - x, height likewise; every
\* region has width > 0 and height > 0 and lies inside both rectangles.
C6_RegionsMatchOverlaps ==
    Returned("get_overlap_regions") =>
        LET got == result.outcome.val
            indices == [k \in DOMAIN got |-> got[k].rect_indices]
        IN /\ indices = find_overlaps(rectangles)
           /\ StrictlyIncreasing(indices)
           /\ Elements(indices) = OverlappingPairs(rectangles)
           /\ \A k \in DOMAIN got :
                  LET a == rectangles[got[k].rect_indices[1] + 1]
                      b == rectangles[got[k].rect_indices[2] + 1]
                      region == got[k].region
                  IN /\ region.x = Max2(X(a), X(b))
                     /\ region.y = Max2(Y(a), Y(b))
                     /\ region.width = Min2(X(a) + W(a), X(b) + W(b)) - region.x
                     /\ region.height = Min2(Y(a) + H(a), Y(b) + H(b)) - region.y
                     /\ region.width > 0 /\ region.height > 0
                     /\ Inside(region, a) /\ Inside(region, b)

\* two regions or more, one of them smaller than both rectangles of its pair
\* and away from the origin
C6_Witness ==
    /\ Returned("get_overlap_regions")
    /\ Len(result.outcome.val) >= 2
    /\ \E k \in DOMAIN result.outcome.val :
           LET e == result.outcome.val[k]
           IN /\ e.region.x > 0
              /\ e.region.width * e.region.height < Area(rectangles[e.rect_indices[1] + 1])
              /\ e.region.width * e.region.height < Area(rectangles[e.rect_indices[2] + 1])

SameGeometry(a, b) == X(a) = X(b) /\ Y(a) = Y(b) /\ W(a) = W(b) /\ H(a) = H(b)

\* the indices (0-based) before i whose rectangle has the geometry of rectangle i
EarlierEqual(rects, i) == {a \in 0..(i - 1) : SameGeometry(rects[a + 1], rects[i + 1])}

\* C7: construction of a valid collection succeeds and issues one warning
\* for each rectangle equal to an earlier one, none for any other, each
\* naming the index of the duplicate and the earliest index with that
\* geometry; find_overlaps() reports every pair of identical rectangles.
C7_DuplicateWarnings ==
    /\ (phase # "start" /\ \A i \in DOMAIN rectangles : rectangles[i] \in Rects) => phase = "ok"
    /\ phase = "ok" =>
        /\ \A k \in 1..(Len(warnings) - 1) : warnings[k].index < warnings[k + 1].index
        /\ {warnings[k].index : k \in DOMAIN warnings}
               = {i \in 0..(Len(rectangles) - 1) : EarlierEqual(rectangles, i) # {}}
        /\ \A k \in DOMAIN warnings :
               LET earlier == EarlierEqual(rectangles, warnings[k].index)
               IN /\ warnings[k].identical_to \in earlier
                  /\ \A a \in earlier : warnings[k].identical_to <= a
    /\ Returned("find_overlaps") =>
           \A p \in IndexPairs(Len(rectangles)) :
               SameGeometry(rectangles[p[1] + 1], rectangles[p[2] + 1])
               => p \in Elements(result.outcome.val)

\* three identical rectangles: two warnings, both naming rectangle 0, and
\* find_overlaps() reports the three pairs
C7_Witness ==
    /\ Returned("find_overlaps")
    /\ Len(rectangles) = 3
    /\ Len(warnings) = 2
    /\ warnings[2] = [index |-> 2, identical_to |-> 0]
    /\ Len(result.outcome.val) = 3

\* the sum over the pairs in P of the area common to the pair
RECURSIVE CommonAreasOf(_, _)
CommonAreasOf(rects, P) ==
    IF P = {} THEN 0
    ELSE LET p == CHOOSE a \in P : TRUE
         IN CommonArea(rects[p[1] + 1], rects[p[2] + 1]) + CommonAreasOf(rects, P \ {p})

\* the fields of get_stats() other than coverage_efficiency
StatsCounts(stats, rects) ==
    /\ stats.total_rectangles = Len(rects)
    /\ stats.overlapping_pairs = Cardinality(OverlappingPairs(rects))
    /\ stats.total_area = UnionArea(rects)
    /\ stats.overlap_area = CommonAreasOf(rects, IndexPairs(Len(rects)))

\* C8 as stated: coverage_efficiency is total_area / (sum of the areas), 1.0
\* when no pair overlaps and lower than 1.0 when some pair overlaps, for every
\* valid collection.
C8_StatsAsStated ==
    Returned("get_stats") =>
        LET stats == result.outcome.val
            eff == stats.coverage_efficiency
        IN /\ StatsCounts(stats, rectangles)
           /\ eff.num * SumOfAreas(rectangles) = stats.total_area * eff.den
           /\ OverlappingPairs(rectangles) = {} => eff.num = eff.den
           /\ OverlappingPairs(rectangles) # {} => eff.num < eff.den

\* C8 amended: the same for every non-empty valid collection; on the empty
\* collection coverage_efficiency is 0.
C8_Stats ==
    Returned("get_stats") =>
        LET stats == result.outcome.val
            eff == stats.coverage_efficiency
        IN /\ StatsCounts(stats, rectangles)
           /\ eff.den > 0
           /\ rectangles = <<>> => eff.num = 0
           /\ rectangles # <<>> =>
                  /\ eff.num * SumOfAreas(rectangles) = stats.total_area * eff.den
                  /\ OverlappingPairs(rectangles) = {} => eff.num = eff.den
                  /\ OverlappingPairs(rectangles) # {} => eff.num < eff.den

\* three rectangles with a common region: overlap_area counts it three times
C8_Witness ==
    /\ Returned("get_stats")
    /\ Len(rectangles) = 3
    /\ Cardinality(Elements(rectangles)) = 3
    /\ result.outcome.val.overlapping_pairs = 3
    /\ \E q \in HalfPoints : Depth(rectangles, q.x, q.y) = 3 /\ q.x.num % 2 = 1 /\ q.y.num % 2 = 1
    /\ result.outcome.val.overlap_area + result.outcome.val.total_area > SumOfAreas(rectangles)
    /\ result.outcome.val.coverage_efficiency.num < result.outcome.val.coverage_efficiency.den

C10_ResultsOfValidated ==
    (phase = "ok" /\ result.op # "none") =>
        result.outcome = Outcome(result.op, result.args, validated)

===========================================================================
